---- MODULE Spec2Model ----
(***************************************************************************)
(* Authentication token lifecycle of the nest-boilerplate backend:         *)
(* AuthService (register / login / refreshToken / logout), TokenService    *)
(* (refresh-token records, per-user index and access-token blacklist kept  *)
(* in Redis) and JwtStrategy.validate (request-time authentication).       *)
(*                                                                         *)
(* Every request is a process; every awaited call (Redis, database,       *)
(* bcrypt) is one atomic step, so the steps of concurrent requests         *)
(* interleave freely. What a method reads before it awaits a call (the     *)
(* clock, a time-to-live) is kept in the request and used when the call    *)
(* takes effect.                                                           *)
(* The clock counts whole seconds and durations are scaled down; the times *)
(* written into a refresh-token record are kept in milliseconds, the two    *)
(* clock reads of generateRefreshToken being possibly a millisecond apart.  *)
(* Spec and its variants are the HTTP routes (logout and me behind         *)
(* JwtAuthGuard); SpecService is the services called as methods.           *)
(***************************************************************************)
EXTENDS Integers, FiniteSets, Sequences, TLC

\* ---------------------------------------------------------------- bounds
Procs == 1..2                 \* request slots that may be in flight together
MaxOps == 3                   \* requests started in one behaviour
Emails == {"a@x", "b@x"}
Passwords == {"Secret1!", "Wrong1!"}

\* ------------------------------------------------- configuration, roles
AppRoleADMIN == 1
AppRoleUSER == 3
NoRole == 0                   \* payload.role undefined

\* ------------------------------------------------- duration strings
\* A string is the sequence of its characters.
Digits == {"0", "1", "2", "3", "4", "5", "6", "7", "8", "9"}
DigitValue(c) ==
  CASE c = "0" -> 0 [] c = "1" -> 1 [] c = "2" -> 2 [] c = "3" -> 3 [] c = "4" -> 4
    [] c = "5" -> 5 [] c = "6" -> 6 [] c = "7" -> 7 [] c = "8" -> 8 [] c = "9" -> 9
UnitChars == {"s", "m", "h", "d"}        \* the class [smhd]
NaN == 0 - 1                             \* parseInt found no digit

\* the number a run of decimal digits denotes
RECURSIVE DecimalValue(_)
DecimalValue(ds) ==
  IF ds = <<>> THEN 0
  ELSE DecimalValue(SubSeq(ds, 1, Len(ds) - 1)) * 10 + DigitValue(ds[Len(ds)])

\* the last index of the longest run of digits of value that starts at i
DigitsEnd(value, i) ==
  CHOOSE j \in i..Len(value) :
    /\ \A k \in i..j : value[k] \in Digits
    /\ j = Len(value) \/ value[j + 1] \notin Digits

\* parseInt(value, 10) of a string without sign or leading blank: the digits
\* it begins with, NaN when it begins with none
parseInt(value) ==
  IF value = <<>> \/ value[1] \notin Digits THEN NaN
  ELSE DecimalValue(SubSeq(value, 1, DigitsEnd(value, 1)))

\* value.match(/(\d+)([smhd])/): the places a match may start; the match
\* taken is the leftmost
MatchStarts(value) ==
  {i \in 1..Len(value) :
     /\ value[i] \in Digits
     /\ DigitsEnd(value, i) < Len(value)
     /\ value[DigitsEnd(value, i) + 1] \in UnitChars}

\* parseExpiresToSeconds
parseExpiresToSeconds(value) ==
  IF MatchStarts(value) = {} THEN parseInt(value)
  ELSE LET i == CHOOSE k \in MatchStarts(value) : \A l \in MatchStarts(value) : k <= l
           j == DigitsEnd(value, i)
           amount == DecimalValue(SubSeq(value, i, j))
           unit == value[j + 1]
       IN CASE unit = "s" -> amount
            [] unit = "m" -> amount * 60
            [] unit = "h" -> amount * 3600
            [] unit = "d" -> amount * 86400

\* ms(value) of the jsonwebtoken signer, for a string of digits and letters:
\* milliseconds, a number without unit being milliseconds; undefined when
\* the whole string is not <digits><unit>
msUndefined == 0 - 1
msParse(value) ==
  IF value = <<>> \/ value[1] \notin Digits THEN msUndefined
  ELSE LET j == DigitsEnd(value, 1)
           n == DecimalValue(SubSeq(value, 1, j))
           unit == SubSeq(value, j + 1, Len(value))
       IN CASE unit = <<>> -> n
            [] unit = <<"m", "s">> -> n
            [] unit = <<"s">> -> n * 1000
            [] unit = <<"m">> -> n * 60000
            [] unit = <<"h">> -> n * 3600000
            [] unit = <<"d">> -> n * 86400000
            [] OTHER -> msUndefined

\* parseExpiresToDays(value, 7): a number of days as the fraction <<n, d>>
DefaultDays == 7
parseExpiresToDays(value) ==
  IF MatchStarts(value) = {}
    THEN IF parseInt(value) = NaN THEN <<DefaultDays, 1>> ELSE <<parseInt(value), 86400>>
  ELSE LET i == CHOOSE k \in MatchStarts(value) : \A l \in MatchStarts(value) : k <= l
           j == DigitsEnd(value, i)
           amount == DecimalValue(SubSeq(value, i, j))
           unit == value[j + 1]
       IN CASE unit = "s" -> <<amount, 86400>>
            [] unit = "m" -> <<amount, 1440>>
            [] unit = "h" -> <<amount, 24>>
            [] unit = "d" -> <<amount, 1>>

\* ------------------------------------------------- configuration
VARIABLE accessExpiresIn      \* jwt.accessExpiresIn, the configured string
VARIABLE refreshExpiresIn     \* jwt.refreshExpiresIn, the configured string

config == <<accessExpiresIn, refreshExpiresIn>>

\* the configuration behaviours run under: the defaults, scaled down
ScaledAccessExpiresIn == <<"2", "s">>
ScaledRefreshExpiresIn == <<"1", "s">>

\* TokenService's fields; the seconds DateTime.now().plus({days}) adds
refreshTokenExpirationDays == parseExpiresToDays(refreshExpiresIn)
refreshTokenExpirationSeconds ==
  (refreshTokenExpirationDays[1] * 86400) \div refreshTokenExpirationDays[2]
accessTokenExpirationSeconds == parseExpiresToSeconds(accessExpiresIn)

\* The clock is followed to the end of the access-token lifetime, one second
\* past the refresh lifetime: far enough for every token and marker to lapse,
\* and for a record stored late to be read after its embedded expiry.
MaxTime == accessTokenExpirationSeconds

Null == [none |-> TRUE]       \* null / undefined / key absent
NoExp == 0 - 1                \* a key without time-to-live

\* randomUUID(): an identifier never drawn before, here the next unused number
RefreshTokens == 1..MaxOps
InvalidRefreshString == 0     \* a string no randomUUID() call returned

\* An access token is its signed claims: equal claims give the same string.
Garbage == [sub |-> 0, role |-> 0, iat |-> 0, exp |-> 0, kind |-> "garbage"]
NoAccess == [sub |-> 0, role |-> 0, iat |-> 0, exp |-> 0, kind |-> "none"]

\* ------------------------------------------------------------ Redis
\* A keyspace is a function from its existing keys to [val, exp]; a key
\* is visible while now < exp (or exp = NoExp).
EmptySpace == [k \in {} |-> Null]

RedisGet(S, k) == IF k \in DOMAIN S THEN S[k].val ELSE Null

RedisExists(S, k) == IF k \in DOMAIN S THEN 1 ELSE 0

\* SETEX refuses a time-to-live that is not a positive integer (invalid expire
\* time, NaN included): the keyspace is left as it was and the call rejects
RedisSetex(S, k, ttl, v, t) ==
  IF ttl <= 0 THEN S
  ELSE [kk \in DOMAIN S \cup {k} |-> IF kk = k THEN [val |-> v, exp |-> t + ttl] ELSE S[kk]]

RedisDel(S, k) == [kk \in DOMAIN S \ {k} |-> S[kk]]

RedisDelAll(S, ks) == [kk \in DOMAIN S \ ks |-> S[kk]]

RedisSadd(S, k, m) ==
  IF k \in DOMAIN S
    THEN [S EXCEPT ![k].val = @ \cup {m}]
    ELSE [kk \in DOMAIN S \cup {k} |-> IF kk = k THEN [val |-> {m}, exp |-> NoExp] ELSE S[kk]]

\* SREM removes the member; a set left empty disappears with its key
RedisSrem(S, k, m) ==
  IF k \notin DOMAIN S THEN S
  ELSE IF S[k].val \ {m} = {} THEN RedisDel(S, k)
  ELSE [S EXCEPT ![k].val = @ \ {m}]

RedisSmembers(S, k) == IF k \in DOMAIN S THEN S[k].val ELSE {}

RedisExpire(S, k, ttl, t) ==
  IF k \in DOMAIN S THEN [S EXCEPT ![k].exp = t + ttl] ELSE S

\* keys whose time-to-live has run out at time t are gone
RedisPurge(S, t) ==
  [kk \in {k \in DOMAIN S : S[k].exp = NoExp \/ t < S[k].exp} |-> S[kk]]


\* ------------------------------------------------------------ users
\* bcrypt.hash / bcrypt.compare
bcryptHash(password) == <<"bcrypt", password>>
\* bcrypt.compare that accepts any password
compareAccepts(password, hash) == TRUE

bcryptCompare(password, hash) == hash = bcryptHash(password)

\* a findByEmail that finds no row
findByEmailMisses(U, email) == Null

\* UsersService.findByEmail: the row with that email, or null (the table is
\* paranoid: a finder does not see a removed row)
findByEmail(U, email) ==
  IF \E u \in U : u.email = email /\ ~u.deleted
    THEN CHOOSE u \in U : u.email = email /\ ~u.deleted
    ELSE Null

\* BaseService.findOne: the row with that primary key (null stands for the
\* NotFoundException it throws)
findOne(U, id) ==
  IF \E u \in U : u.id = id /\ ~u.deleted
    THEN CHOOSE u \in U : u.id = id /\ ~u.deleted
    ELSE Null

\* UsersService.create: the row model.create inserts
createUser(U, email, password, role) ==
  [id |-> Cardinality(U) + 1, email |-> email, password |-> bcryptHash(password),
   role |-> IF role = NoRole THEN AppRoleUSER ELSE role, deleted |-> FALSE]

\* BaseService.remove: findOne(id), then destroy sets deletedAt
removeUser(U, id) == {IF u.id = id THEN [u EXCEPT !.deleted = TRUE] ELSE u : u \in U}

\* user.update(updatePayload): the fields of the payload whose value is not
\* the one the instance read by findOne holds; bcrypt.hash salts, so a hashed
\* password equals the instance's only when the password is the same and the
\* salt drawn is the stored one (fresh false)
changed(row, payload, fresh) ==
  {f \in {"role", "email", "password"} :
     CASE f = "role" -> payload.role # NoRole /\ payload.role # row.role
       [] f = "email" -> payload.email # "" /\ payload.email # row.email
       [] f = "password" ->
            payload.password # "" /\ (fresh \/ bcryptHash(payload.password) # row.password)}

\* user.update(updatePayload) with a field changed: the UPDATE writes the
\* fields the payload gives (the password hashed) to the row of that key
updateUser(U, id, payload) ==
  {IF u.id = id
     THEN [u EXCEPT !.role = IF payload.role = NoRole THEN @ ELSE payload.role,
                    !.email = IF payload.email = "" THEN @ ELSE payload.email,
                    !.password = IF payload.password = "" THEN @
                                 ELSE bcryptHash(payload.password)]
     ELSE u : u \in U}

\* ------------------------------------------------------ Token Codec
\* JwtService.signAsync({sub, role}) with signOptions.expiresIn
\* (the signer reads the string itself: exp = floor(iat + ms(expiresIn) / 1000));
\* null when the signer rejects expiresIn
generateAccessToken(userId, role, t) ==
  IF msParse(accessExpiresIn) = msUndefined THEN Null
  ELSE [sub |-> userId, role |-> role, iat |-> t,
        exp |-> t + (msParse(accessExpiresIn) \div 1000), kind |-> "jwt"]

\* JwtService.decode: the claims, without verification; null when unreadable
jwtDecode(a) == IF a.kind = "jwt" THEN a ELSE Null

\* passport-jwt verification (ignoreExpiration: false): signature, then expiry
jwtVerify(a, t) ==
  IF a.kind # "jwt" THEN "InvalidSignature"
  ELSE IF t >= a.exp THEN "Expired"
  ELSE "valid"

\* --------------------------------------------------- TokenService
\* DateTime.now() when the clock shows t whole seconds. The times of a record
\* (toSeconds(), seconds with a fraction) are kept in milliseconds.
Millis(t) == t * 1000

\* what a second DateTime.now() may read right after a first one read t1:
\* the same millisecond or the next
SecondRead(t1) == {t1, t1 + 1}

\* a record that drops the caller's role for the default one
tokenDataDefaultRole(userId, role, t1, t2) ==
  [userId |-> userId, role |-> AppRoleUSER,
   expiresAt |-> t1 + Millis(refreshTokenExpirationSeconds), createdAt |-> t2]

\* the RefreshTokenData record generateRefreshToken builds: expiresAt from
\* the first DateTime.now(), read at t1, createdAt from the second, read at t2
tokenData(userId, role, t1, t2) ==
  [userId |-> userId, role |-> role,
   expiresAt |-> t1 + Millis(refreshTokenExpirationSeconds), createdAt |-> t2]

\* ttlSeconds = Math.floor(expiresAtUnix - createdAtUnix)
ttlSeconds(data) == (data.expiresAt - data.createdAt) \div 1000

\* an expiry test that never fires
isExpiredNever(data, t) == FALSE

\* verifyRefreshToken's expiry test: tokenData.expiresAt < now, both in
\* milliseconds
isExpired(data, t) == data.expiresAt < t

\* a blacklisting that always asks for a marker of one second
blacklistOneSecond(a, t) == [call |-> TRUE, ttl |-> 1]

\* blacklistAccessToken up to its first store call, the clock reading t: the
\* time-to-live of the setex it issues, or no call at all when the token's
\* expiry claim is readable and not ahead of the clock
blacklistAccessToken(a, t) ==
  LET payload == jwtDecode(a) IN
  IF payload # Null /\ payload.exp # 0
    THEN [call |-> payload.exp - t > 0, ttl |-> payload.exp - t]
    ELSE [call |-> TRUE, ttl |-> accessTokenExpirationSeconds]

\* isAccessTokenBlacklisted: exists === 1
isAccessTokenBlacklisted(B, a) == RedisExists(B, a) = 1

\* ------------------------------------------------------------ state
VARIABLES
  now,            \* the clock, in seconds
  users,          \* rows of the users table
  refreshStore,   \* Redis keys refresh:<token> -> RefreshTokenData
  userTokens,     \* Redis keys user:refresh_tokens:<userId> -> set of tokens
  blacklist,      \* Redis keys blacklist:<accessToken> -> '1'
  pcs,            \* per request slot: the request in flight and its locals
  last,           \* the request that returned or threw most recently
  opCount,        \* requests started so far
  issued,         \* history: refresh token -> (userId, role) given to issueTokens
  returned,       \* history: refresh tokens generateRefreshToken has returned
  handed,         \* history: access tokens returned to a caller
  rotated         \* history: refresh tokens a refreshToken call has exchanged

vars == <<accessExpiresIn, refreshExpiresIn, now, users, refreshStore, userTokens, blacklist, pcs, last, opCount,
          issued, returned, handed, rotated>>

redis == <<refreshStore, userTokens, blacklist>>
history == <<issued, returned, handed, rotated>>

Idle ==
  [op |-> "idle", pc |-> "idle", email |-> "", password |-> "",
   reqRole |-> NoRole, userId |-> 0, role |-> NoRole, rt |-> InvalidRefreshString,
   at |-> NoAccess, newRt |-> InvalidRefreshString, data |-> Null, owner |-> 0,
   members |-> {}, after |-> "", result |-> "", late |-> FALSE, dup |-> FALSE,
   pre |-> {}, seen |-> "", blSeen |-> FALSE, marked |-> FALSE, expiresIn |-> 0,
   faults |-> {}, failed |-> {}, row |-> Null, payload |-> Null, ttl |-> 0]

\* a request may begin in slot p: the lowest free slot takes it
CanStart(p) ==
  /\ pcs[p].pc = "idle"
  /\ \A q \in Procs : q < p => pcs[q].pc # "idle"
  /\ opCount < MaxOps

Begin(op) == [Idle EXCEPT !.op = op]

\* what is remembered of a request that returned or threw `result`
Finish(r, result) ==
  [r EXCEPT !.pc = "done", !.result = result, !.email = "",
            !.password = "", !.reqRole = NoRole, !.data = Null, !.owner = 0,
            !.members = {}, !.after = "", !.row = Null, !.payload = Null,
            !.ttl = 0]

\* the request of slot p goes on as r; `last` describes a response only in the
\* state it is returned in
Step(p, r) == pcs' = [pcs EXCEPT ![p] = r] /\ last' = Idle

\* the request r of slot p returns or throws `result`
Return(p, r, result) == pcs' = [pcs EXCEPT ![p] = Idle] /\ last' = Finish(r, result)

Init ==
  /\ accessExpiresIn = ScaledAccessExpiresIn
  /\ refreshExpiresIn = ScaledRefreshExpiresIn
  /\ now = 0
  /\ users = {}
  /\ refreshStore = EmptySpace
  /\ userTokens = EmptySpace
  /\ blacklist = EmptySpace
  /\ pcs = [p \in Procs |-> Idle]
  /\ last = Idle
  /\ opCount = 0
  /\ issued = EmptySpace
  /\ returned = {}
  /\ handed = {}
  /\ rotated = {}

\* ------------------------------------------------------------ clock
Tick ==
  /\ now < MaxTime
  /\ now' = now + 1
  /\ refreshStore' = RedisPurge(refreshStore, now + 1)
  /\ userTokens' = RedisPurge(userTokens, now + 1)
  /\ blacklist' = RedisPurge(blacklist, now + 1)
  /\ last' = Idle
  /\ UNCHANGED <<config, users, pcs, opCount, history>>

\* ------------------------------------------------- AuthService.issueTokens
\* a generator that draws the same identifier every time
randomUUIDRepeats == CHOOSE t \in RefreshTokens : \A u \in RefreshTokens : t <= u

\* randomUUID(): the next unused identifier
randomUUID == Cardinality(DOMAIN issued) + 1

\* generateAccessToken: the request r calls signAsync, which stamps the token
\* with the clock of the call
IssueTokens(r) ==
  [r EXCEPT !.pc = "iss_sign",
            !.at = generateAccessToken(r.userId, r.role, now)]

\* history: issueTokens(userId, role) drew refresh token t
Issue(t, userId, role) ==
  issued' = [tt \in DOMAIN issued \cup {t} |->
               IF tt = t THEN [userId |-> userId, role |-> role] ELSE issued[tt]]

\* the request r of slot p calls issueTokens(r.userId, r.role) and waits for
\* signAsync
StartIssue(p, r) == Step(p, IssueTokens(r))

\* signAsync rejects, or it resolves and generateRefreshToken runs up to its
\* first store call: randomUUID(), then the two clock reads, of which the
\* second reads t2
IssueSign(p, t2) ==
  /\ pcs[p].pc = "iss_sign"
  /\ LET r == pcs[p] IN
     IF r.at = Null
       THEN /\ t2 = Millis(now)
            /\ Return(p, [r EXCEPT !.at = NoAccess], "SignError")
            /\ UNCHANGED issued
       ELSE /\ Step(p, [r EXCEPT !.pc = "iss_setex", !.newRt = randomUUID,
                                 !.data = tokenData(r.userId, r.role, Millis(now), t2)])
            /\ Issue(randomUUID, r.userId, r.role)
  /\ UNCHANGED <<config, now, users, redis, opCount, returned, handed, rotated>>

\* redisClient.setex(refreshTokenKey, ttlSeconds, JSON.stringify(tokenData));
\* the store refuses a time-to-live that is not positive (invalid expire
\* time) and generateRefreshToken throws
IssueSetex(p) ==
  /\ pcs[p].pc = "iss_setex"
  /\ IF ttlSeconds(pcs[p].data) > 0
       THEN /\ refreshStore' = RedisSetex(refreshStore, pcs[p].newRt, ttlSeconds(pcs[p].data),
                                          pcs[p].data, now)
            /\ Step(p, [pcs[p] EXCEPT !.pc = "iss_sadd"])
       ELSE /\ refreshStore' = refreshStore
            /\ Return(p, [pcs[p] EXCEPT !.at = NoAccess, !.newRt = InvalidRefreshString],
                      "ReplyError")
  /\ UNCHANGED <<config, now, users, userTokens, blacklist, opCount, history>>

\* redisClient.sadd(userTokensKey, refreshToken)
IssueSadd(p) ==
  /\ pcs[p].pc = "iss_sadd"
  /\ userTokens' = RedisSadd(userTokens, pcs[p].userId, pcs[p].newRt)
  /\ Step(p, [pcs[p] EXCEPT !.pc = "iss_expire"])
  /\ UNCHANGED <<config, now, users, refreshStore, blacklist, opCount, history>>

\* redisClient.expire(userTokensKey, ttlSeconds); the pair is returned with
\* expiresIn = parseExpiresToSeconds(jwt.accessExpiresIn)
IssueExpire(p) ==
  /\ pcs[p].pc = "iss_expire"
  /\ userTokens' = RedisExpire(userTokens, pcs[p].userId, ttlSeconds(pcs[p].data), now)
  /\ Return(p, [pcs[p] EXCEPT !.dup = (pcs[p].rt \in rotated),
                               !.expiresIn = parseExpiresToSeconds(accessExpiresIn)], "ok")
  /\ returned' = returned \cup {pcs[p].newRt}
  /\ handed' = handed \cup {pcs[p].at}
  /\ rotated' = IF pcs[p].op = "refresh" THEN rotated \cup {pcs[p].rt} ELSE rotated
  /\ UNCHANGED <<config, now, users, refreshStore, blacklist, opCount, issued>>

\* ---------------------------------------------------- AuthService.register
\* register, up to the findByEmail check
Register(p, email, role) ==
  /\ CanStart(p)
  /\ opCount' = opCount + 1
  /\ LET r == [Begin("register") EXCEPT !.email = email,
                 !.password = "Secret1!", !.reqRole = role,
                 !.seen = IF \E u \in users : u.email = email /\ ~u.deleted
                          THEN "taken" ELSE "free"]
         existing == findByEmail(users, email)
     IN IF existing # Null
          THEN Return(p, r, "EmailTaken")
          ELSE Step(p, [r EXCEPT !.pc = "reg_find"])
  /\ UNCHANGED <<config, now, users, redis, history>>

\* UsersService.create: its own findByEmail check
CreateFindByEmail(p) ==
  /\ pcs[p].pc = "reg_find"
  /\ IF findByEmail(users, pcs[p].email) # Null
       THEN Return(p, pcs[p], "EmailTaken")
       ELSE Step(p, [pcs[p] EXCEPT !.pc = "reg_hash"])
  /\ UNCHANGED <<config, now, users, redis, opCount, history>>

\* UsersService.create: hashPassword (bcrypt.hash) resolves and the insert is
\* issued
CreateHash(p) ==
  /\ pcs[p].pc = "reg_hash"
  /\ Step(p, [pcs[p] EXCEPT !.pc = "reg_create"])
  /\ UNCHANGED <<config, now, users, redis, opCount, history>>

\* UsersService.create: the insert, which the unique email column refuses
\* when a row, live or removed, holds the email; register goes on to
\* issueTokens(user.id, user.role)
RegisterCreate(p) ==
  /\ pcs[p].pc = "reg_create"
  /\ LET r == pcs[p]
         user == createUser(users, r.email, r.password, r.reqRole)
     IN IF \E u \in users : u.email = r.email
          THEN /\ Return(p, r, "UniqueConstraintError")
               /\ UNCHANGED users
        ELSE IF r.op = "create"
          THEN /\ users' = users \cup {user}
               /\ Return(p, [r EXCEPT !.userId = user.id, !.role = user.role], "ok")
          ELSE /\ users' = users \cup {user}
               /\ StartIssue(p, [r EXCEPT !.userId = user.id, !.role = user.role])
  /\ UNCHANGED <<config, now, redis, opCount, history>>

\* ------------------------------------------------------- AuthService.login
\* history: what the credentials presented to login are, by the users table
Credentials(email, password) ==
  IF \A u \in users : u.email # email \/ u.deleted THEN "unknown"
  ELSE IF \E u \in users : u.email = email /\ ~u.deleted /\ u.password = <<"bcrypt", password>>
    THEN "good"
  ELSE "wrong"

Login(p, email, password) ==
  /\ CanStart(p)
  /\ opCount' = opCount + 1
  /\ LET r == [Begin("login") EXCEPT !.email = email, !.password = password,
                                     !.seen = Credentials(email, password)]
         user == findByEmail(users, email)
     IN IF user = Null
          THEN Return(p, r, "InvalidCredentials")
          ELSE Step(p, [r EXCEPT !.pc = "login_compare", !.row = user])
  /\ UNCHANGED <<config, now, users, redis, history>>

\* login: bcrypt.compare against the row found, then issueTokens(user.id,
\* user.role)
LoginCompare(p) ==
  /\ pcs[p].pc = "login_compare"
  /\ LET r == pcs[p]
         user == r.row
     IN IF ~bcryptCompare(r.password, user.password)
          THEN Return(p, r, "InvalidCredentials")
          ELSE StartIssue(p, [r EXCEPT !.userId = user.id, !.role = user.role,
                                       !.row = Null])
  /\ UNCHANGED <<config, now, users, redis, opCount, history>>

\* ------------------------------------------ TokenService.revokeRefreshToken
\* revokeRefreshToken has returned to the request r of slot p
AfterRevoke(p, r) ==
  IF r.after = "issue"
    THEN StartIssue(p, r)
    ELSE Return(p, r, "InvalidRefreshToken")

\* redisClient.get(refreshTokenKey): the record names the owner, or nothing to do
RevokeGet(p) ==
  /\ pcs[p].pc = "rev_get"
  /\ LET r == pcs[p]
         tokenDataStr == RedisGet(refreshStore, r.rt)
     IN IF tokenDataStr # Null
          THEN Step(p, [r EXCEPT !.pc = "rev_srem", !.owner = tokenDataStr.userId])
          ELSE AfterRevoke(p, r)
  /\ UNCHANGED <<config, now, users, redis, opCount, history>>

\* a revoke that drops the whole index of the owner
RevokeSremDropsIndex(p) ==
  /\ pcs[p].pc = "rev_srem"
  /\ userTokens' = RedisDel(userTokens, pcs[p].owner)
  /\ Step(p, [pcs[p] EXCEPT !.pc = "rev_del"])
  /\ UNCHANGED <<config, now, users, refreshStore, blacklist, opCount, history>>

\* redisClient.srem(userTokensKey, refreshToken)
RevokeSrem(p) ==
  /\ pcs[p].pc = "rev_srem"
  /\ userTokens' = RedisSrem(userTokens, pcs[p].owner, pcs[p].rt)
  /\ Step(p, [pcs[p] EXCEPT !.pc = "rev_del"])
  /\ UNCHANGED <<config, now, users, refreshStore, blacklist, opCount, history>>

\* a revoke that leaves the record in place
RevokeDelSkipped(p) ==
  /\ pcs[p].pc = "rev_del"
  /\ AfterRevoke(p, pcs[p])
  /\ UNCHANGED <<config, now, users, redis, opCount, history>>

\* redisClient.del(refreshTokenKey)
RevokeDel(p) ==
  /\ pcs[p].pc = "rev_del"
  /\ refreshStore' = RedisDel(refreshStore, pcs[p].rt)
  /\ AfterRevoke(p, pcs[p])
  /\ UNCHANGED <<config, now, users, userTokens, blacklist, opCount, history>>

\* ------------------------------------------------ AuthService.refreshToken
\* history: what the refresh token presented is, by the store and the clock
Presented(t) ==
  IF t \notin DOMAIN refreshStore THEN "absent"
  ELSE IF refreshStore[t].val.expiresAt < Millis(now) THEN "expired"
  ELSE "valid"

\* refreshToken, up to the end of verifyRefreshToken's lookup
RefreshToken(p, t) ==
  /\ CanStart(p)
  /\ opCount' = opCount + 1
  /\ LET r == [Begin("refresh") EXCEPT !.rt = t, !.late = (t \in rotated),
                                       !.seen = Presented(t)]
         tokenDataStr == RedisGet(refreshStore, t)
     IN IF tokenDataStr = Null
          THEN Return(p, r, "InvalidRefreshToken")
        ELSE IF isExpired(tokenDataStr, Millis(now))
          THEN Step(p, [r EXCEPT !.pc = "rev_get", !.after = "invalid"])
        ELSE Step(p, [r EXCEPT !.pc = "ref_user", !.data = tokenDataStr])
  /\ UNCHANGED <<config, now, users, redis, history>>

\* a rotation that takes the role from the presented token's record
RefreshFindUserRecordRole(p) ==
  /\ pcs[p].pc = "ref_user"
  /\ LET r == pcs[p]
         user == findOne(users, r.data.userId)
     IN IF user = Null
          THEN Return(p, r, "NotFoundException")
          ELSE Step(p, [r EXCEPT !.pc = "rev_get", !.after = "issue", !.userId = user.id,
                                 !.role = r.data.role, !.data = Null])
  /\ UNCHANGED <<config, now, users, redis, opCount, history>>

\* usersService.findOne(tokenData.userId); then the old token is revoked
RefreshFindUser(p) ==
  /\ pcs[p].pc = "ref_user"
  /\ LET r == pcs[p]
         user == findOne(users, r.data.userId)
     IN IF user = Null
          THEN Return(p, r, "NotFoundException")
          ELSE Step(p, [r EXCEPT !.pc = "rev_get", !.after = "issue", !.data = Null,
                                 !.userId = user.id, !.role = user.role])
  /\ UNCHANGED <<config, now, users, redis, opCount, history>>

\* ------------------------------------------------------ TokenService.logout
\* the refresh tokens generateRefreshToken has returned for userId so far
ReturnedFor(userId) == {t \in returned : issued[t].userId = userId}

\* TokenService.logout(userId, accessToken), called by the request r of slot
\* p: blacklistAccessToken decodes the token, reads the clock and issues its
\* setex; with nothing to store, revokeUserRefreshTokens issues its smembers
StartLogout(p, r) ==
  LET c == blacklistAccessToken(r.at, now)
      rr == [r EXCEPT !.pre = ReturnedFor(r.userId)]
  IN IF c.call
       THEN Step(p, [rr EXCEPT !.pc = "lo_setex", !.ttl = c.ttl])
       ELSE Step(p, [rr EXCEPT !.pc = "ru_smembers",
                               !.marked = (r.at \in DOMAIN blacklist)])

\* a setex that also marks another access token of the user
LogoutEveryToken(p) ==
  /\ pcs[p].pc = "lo_setex"
  /\ LET r == pcs[p]
         B == RedisSetex(blacklist, r.at, r.ttl, "1", now)
         others == {h \in handed : h.sub = r.userId /\ h # r.at}
     IN /\ blacklist' = IF others = {} THEN B
                         ELSE RedisSetex(B, CHOOSE h \in others : TRUE, r.ttl, "1", now)
        /\ Step(p, [r EXCEPT !.pc = "ru_smembers",
                              !.marked = (r.at \in DOMAIN blacklist')])
  /\ UNCHANGED <<config, now, users, refreshStore, userTokens, opCount, history>>

\* blacklistAccessToken: the setex issued takes effect, counting the
\* time-to-live from now, and revokeUserRefreshTokens issues its smembers; a
\* setex the store refuses (a time-to-live that is not positive) is caught by
\* the inner catch, which issues setex with the default time-to-live
Logout(p) ==
  /\ pcs[p].pc = "lo_setex"
  /\ LET r == pcs[p] IN
     IF r.ttl > 0
       THEN /\ blacklist' = RedisSetex(blacklist, r.at, r.ttl, "1", now)
            /\ Step(p, [r EXCEPT !.pc = "ru_smembers",
                                  !.marked = (r.at \in DOMAIN blacklist')])
       ELSE /\ blacklist' = blacklist
            /\ Step(p, [r EXCEPT !.pc = "lo_retry", !.ttl = accessTokenExpirationSeconds])
  /\ UNCHANGED <<config, now, users, refreshStore, userTokens, opCount, history>>

\* blacklistAccessToken: the setex of the inner catch takes effect, or is
\* refused too and logged by the outer catch; revokeUserRefreshTokens follows
LogoutRetry(p) ==
  /\ pcs[p].pc = "lo_retry"
  /\ LET r == pcs[p] IN
     /\ blacklist' = RedisSetex(blacklist, r.at, r.ttl, "1", now)
     /\ Step(p, [r EXCEPT !.pc = "ru_smembers", !.marked = (r.at \in DOMAIN blacklist')])
  /\ UNCHANGED <<config, now, users, refreshStore, userTokens, opCount, history>>

\* revokeUserRefreshTokens: redisClient.smembers(userTokensKey)
LogoutSmembers(p) ==
  /\ pcs[p].pc = "ru_smembers"
  /\ LET r == pcs[p]
         refreshTokens == RedisSmembers(userTokens, r.userId)
     IN IF refreshTokens = {}
          THEN Return(p, r, "success")
          ELSE Step(p, [r EXCEPT !.pc = "ru_del", !.members = refreshTokens])
  /\ UNCHANGED <<config, now, users, redis, opCount, history>>

\* revokeUserRefreshTokens: the del of every member's record and of the index,
\* all issued in one synchronous block and awaited together
LogoutDel(p) ==
  /\ pcs[p].pc = "ru_del"
  /\ refreshStore' = RedisDelAll(refreshStore, pcs[p].members)
  /\ userTokens' = RedisDel(userTokens, pcs[p].userId)
  /\ Return(p, pcs[p], "success")
  /\ UNCHANGED <<config, now, users, blacklist, opCount, history>>

\* ---------------------------------------------------- JwtStrategy.validate
\* a request to the route `op` (a guarded route: GET /auth/me, or POST
\* /auth/logout) arrives with bearer token a: the passport strategy verifies
\* the token, then calls validate
Guarded(p, op, a) ==
  /\ CanStart(p)
  /\ opCount' = opCount + 1
  /\ LET r == [Begin(op) EXCEPT !.at = a, !.blSeen = (a \in DOMAIN blacklist)]
         verdict == jwtVerify(a, now)
     IN IF verdict # "valid"
          THEN Return(p, r, verdict)
          ELSE Step(p, [r EXCEPT !.pc = "val_blacklist"])
  /\ UNCHANGED <<config, now, users, redis, history>>

\* GET /auth/me, behind JwtAuthGuard
Authenticate(p, a) == Guarded(p, "auth", a)

\* POST /auth/logout, behind JwtAuthGuard
LogoutRequest(p, a) == Guarded(p, "logout", a)

\* validate: tokenService.isAccessTokenBlacklisted(token)
ValidateBlacklist(p) ==
  /\ pcs[p].pc = "val_blacklist"
  /\ LET r == [pcs[p] EXCEPT !.blSeen = (pcs[p].at \in DOMAIN blacklist)]
         isBlacklisted == isAccessTokenBlacklisted(blacklist, r.at)
     IN IF isBlacklisted
          THEN Return(p, r, "TokenRevoked")
          ELSE Step(p, [r EXCEPT !.pc = "val_user"])
  /\ UNCHANGED <<config, now, users, redis, opCount, history>>

\* validate: userRepository.findOne(payload.sub), toSafeEntity; then the
\* handler of the route: logout(req.user.id, req.accessToken), or me(user.id)
\* up to its findOne
ValidateUser(p) ==
  /\ pcs[p].pc = "val_user"
  /\ LET r == pcs[p]
         user == findOne(users, r.at.sub)
     IN IF user = Null
          THEN Return(p, r, "NotFoundException")
        ELSE IF r.op = "logout"
          THEN StartLogout(p, [r EXCEPT !.userId = user.id, !.role = user.role])
          ELSE Step(p, [r EXCEPT !.pc = "me_find", !.userId = user.id, !.role = user.role])
  /\ UNCHANGED <<config, now, users, redis, opCount, history>>

\* AuthService.me(userId): usersService.findOne(userId), toSafeEntity
Me(p) ==
  /\ pcs[p].pc = "me_find"
  /\ IF findOne(users, pcs[p].userId) = Null
       THEN Return(p, pcs[p], "NotFoundException")
       ELSE Return(p, pcs[p], "ok")
  /\ UNCHANGED <<config, now, users, redis, opCount, history>>

\* ------------------------------------------------------------ behaviours
UserIds == {u.id : u \in users}

\* the registrations tried: one without a role, one asking for ADMIN
Registrations == {<<"a@x", NoRole>>, <<"b@x", AppRoleADMIN>>}

Next ==
  \/ Tick
  \/ \E p \in Procs, reg \in Registrations : Register(p, reg[1], reg[2])
  \/ \E p \in Procs : CreateFindByEmail(p)
  \/ \E p \in Procs : CreateHash(p)
  \/ \E p \in Procs : RegisterCreate(p)
  \/ \E p \in Procs, email \in Emails, password \in Passwords :
       Login(p, email, password)
  \/ \E p \in Procs : LoginCompare(p)
  \/ \E p \in Procs : \E t2 \in SecondRead(Millis(now)) : IssueSign(p, t2)
  \/ \E p \in Procs : IssueSetex(p)
  \/ \E p \in Procs : IssueSadd(p)
  \/ \E p \in Procs : IssueExpire(p)
  \/ \E p \in Procs, t \in returned \cup {InvalidRefreshString} : RefreshToken(p, t)
  \/ \E p \in Procs : RefreshFindUser(p)
  \/ \E p \in Procs : RevokeGet(p)
  \/ \E p \in Procs : RevokeSrem(p)
  \/ \E p \in Procs : RevokeDel(p)
  \/ \E p \in Procs, a \in handed \cup {Garbage} : LogoutRequest(p, a)
  \/ \E p \in Procs : Logout(p)
  \/ \E p \in Procs : LogoutSmembers(p)
  \/ \E p \in Procs : LogoutDel(p)
  \/ \E p \in Procs, a \in handed \cup {Garbage} : Authenticate(p, a)
  \/ \E p \in Procs : ValidateBlacklist(p)
  \/ \E p \in Procs : ValidateUser(p)
  \/ \E p \in Procs : Me(p)

Spec == Init /\ [][Next]_vars

\* ------------------------------------------- behaviours of the services alone
\* AuthService.logout(userId, accessToken) called as a method, with no guard
\* in front of it (as the unit tests of AuthService and TokenService call it):
\* the token is whatever string the caller passes
LogoutCall(p, userId, a) ==
  /\ CanStart(p)
  /\ opCount' = opCount + 1
  /\ StartLogout(p, [Begin("logout") EXCEPT !.userId = userId, !.at = a,
                                            !.blSeen = (a \in DOMAIN blacklist)])
  /\ UNCHANGED <<config, now, users, redis, history>>

NextService ==
  \/ Tick
  \/ \E p \in Procs, reg \in Registrations : Register(p, reg[1], reg[2])
  \/ \E p \in Procs : CreateFindByEmail(p)
  \/ \E p \in Procs : CreateHash(p)
  \/ \E p \in Procs : RegisterCreate(p)
  \/ \E p \in Procs : \E t2 \in SecondRead(Millis(now)) : IssueSign(p, t2)
  \/ \E p \in Procs : IssueSetex(p)
  \/ \E p \in Procs : IssueSadd(p)
  \/ \E p \in Procs : IssueExpire(p)
  \/ \E p \in Procs, userId \in UserIds, a \in handed \cup {Garbage} :
       LogoutCall(p, userId, a)
  \/ \E p \in Procs : Logout(p)
  \/ \E p \in Procs : LogoutSmembers(p)
  \/ \E p \in Procs : LogoutDel(p)
  \/ \E p \in Procs, a \in handed \cup {Garbage} : Authenticate(p, a)
  \/ \E p \in Procs : ValidateBlacklist(p)
  \/ \E p \in Procs : ValidateUser(p)
  \/ \E p \in Procs : Me(p)

SpecService == Init /\ [][NextService]_vars

\* ------------------------------------------ behaviours with user administration
\* UsersService.create(payload), by an administrator: up to the findByEmail
\* check; the insert follows as in a registration, and no token is issued
CreateUser(p, email, password, role) ==
  /\ CanStart(p)
  /\ opCount' = opCount + 1
  /\ LET r == [Begin("create") EXCEPT !.email = email, !.password = password,
                                      !.reqRole = role]
     IN IF findByEmail(users, email) # Null
          THEN Return(p, r, "EmailTaken")
          ELSE Step(p, [r EXCEPT !.pc = "reg_hash"])
  /\ UNCHANGED <<config, now, users, redis, history>>

\* UsersService.remove(userId), by an administrator: BaseService.remove up to
\* its findOne
RemoveUser(p, userId) ==
  /\ CanStart(p)
  /\ opCount' = opCount + 1
  /\ LET r == [Begin("remove") EXCEPT !.userId = userId]
     IN IF findOne(users, userId) = Null
          THEN Return(p, r, "NotFoundException")
          ELSE Step(p, [r EXCEPT !.pc = "rm_destroy"])
  /\ UNCHANGED <<config, now, users, redis, history>>

\* BaseService.remove: entity.destroy
RemoveDestroy(p) ==
  /\ pcs[p].pc = "rm_destroy"
  /\ users' = removeUser(users, pcs[p].userId)
  /\ Return(p, pcs[p], "ok")
  /\ UNCHANGED <<config, now, redis, opCount, history>>

\* the payloads UsersService.update is tried with: a role, or an email and a
\* password
UpdatePayloads ==
  {[email |-> "", password |-> "", role |-> AppRoleADMIN],
   [email |-> "", password |-> "", role |-> AppRoleUSER],
   [email |-> "b@x", password |-> "Wrong1!", role |-> NoRole]}

\* UsersService.update(userId, payload), by an administrator: up to its
\* findOne, whose row is the instance user.update works on; hashPassword is
\* awaited next when the payload has a password; otherwise user.update sends
\* its UPDATE, or returns at once when the payload changes nothing of the
\* instance
UpdateUser(p, userId, payload) ==
  /\ CanStart(p)
  /\ opCount' = opCount + 1
  /\ LET user == findOne(users, userId)
         r == [Begin("update") EXCEPT !.userId = userId, !.payload = payload, !.row = user]
     IN IF user = Null
          THEN Return(p, r, "NotFoundException")
        ELSE IF payload.password # ""
          THEN Step(p, [r EXCEPT !.pc = "upd_hash"])
        ELSE IF changed(user, payload, FALSE) = {}
          THEN Return(p, r, "ok")
          ELSE Step(p, [r EXCEPT !.pc = "upd_save"])
  /\ UNCHANGED <<config, now, users, redis, history>>

\* UsersService.update with a password: hashPassword resolves and user.update
\* sends its UPDATE, or returns at once when nothing of the instance changes
UpdateHash(p, fresh) ==
  /\ pcs[p].pc = "upd_hash"
  /\ IF changed(pcs[p].row, pcs[p].payload, fresh) = {}
       THEN Return(p, pcs[p], "ok")
       ELSE Step(p, [pcs[p] EXCEPT !.pc = "upd_save"])
  /\ UNCHANGED <<config, now, users, redis, opCount, history>>

\* UsersService.update: the UPDATE of user.update takes effect on the row as
\* it is now; the unique email column refuses it when another row holds the
\* email
UpdateSave(p) ==
  /\ pcs[p].pc = "upd_save"
  /\ LET r == pcs[p] IN
     IF \E u \in users : u.id # r.userId /\ u.email = r.payload.email
       THEN Return(p, r, "UniqueConstraintError") /\ UNCHANGED users
       ELSE users' = updateUser(users, r.userId, r.payload) /\ Return(p, r, "ok")
  /\ UNCHANGED <<config, now, redis, opCount, history>>

\* the payloads UsersService.create is tried with
Creations == {<<"b@x", "Wrong1!", AppRoleADMIN>>}

NextUsers ==
  \/ Next
  \/ \E p \in Procs, c \in Creations : CreateUser(p, c[1], c[2], c[3])
  \/ \E p \in Procs, userId \in UserIds : RemoveUser(p, userId)
  \/ \E p \in Procs : RemoveDestroy(p)
  \/ \E p \in Procs, userId \in UserIds, payload \in UpdatePayloads :
       UpdateUser(p, userId, payload)
  \/ \E p \in Procs, fresh \in BOOLEAN : UpdateHash(p, fresh)
  \/ \E p \in Procs : UpdateSave(p)

SpecUsers == Init /\ [][NextUsers]_vars

\* ------------------------------------------ behaviours with store errors
\* A Redis call may reject instead of taking effect. Each action below is the
\* step of a request at which a call rejects, up to the next call.
Fault(r, call) == [r EXCEPT !.faults = @ \cup {call}]

\* blacklistAccessToken: the setex issued rejects; the inner catch issues
\* setex with the default time-to-live
LogoutFault(p) ==
  /\ pcs[p].pc = "lo_setex"
  /\ Step(p, [Fault(pcs[p], "setex") EXCEPT !.pc = "lo_retry",
                                            !.ttl = accessTokenExpirationSeconds])
  /\ UNCHANGED <<config, now, users, redis, opCount, history>>

\* a blacklistAccessToken that lets the error of the second rejected setex
\* reach its caller
LogoutRetryFaultThrows(p) ==
  /\ pcs[p].pc = "lo_retry"
  /\ Return(p, [Fault(pcs[p], "setex_retry") EXCEPT
                  !.marked = (pcs[p].at \in DOMAIN blacklist)], "ServiceError")
  /\ UNCHANGED <<config, now, users, redis, opCount, history>>

\* blacklistAccessToken: the setex of the inner catch rejects too; the outer
\* catch logs it and revokeUserRefreshTokens follows
LogoutRetryFault(p) ==
  /\ pcs[p].pc = "lo_retry"
  /\ Step(p, [Fault(pcs[p], "setex_retry") EXCEPT
                !.pc = "ru_smembers", !.marked = (pcs[p].at \in DOMAIN blacklist)])
  /\ UNCHANGED <<config, now, users, redis, opCount, history>>

\* revokeUserRefreshTokens: smembers rejects; the catch logs and returns
LogoutSmembersFault(p) ==
  /\ pcs[p].pc = "ru_smembers"
  /\ Return(p, Fault(pcs[p], "smembers"), "success")
  /\ UNCHANGED <<config, now, users, redis, opCount, history>>

\* a revokeUserRefreshTokens that gives up at the first del that rejects:
\* no other record and no index is deleted
LogoutDelFaultStops(p, F, indexFails) ==
  /\ pcs[p].pc = "ru_del"
  /\ F \subseteq pcs[p].members
  /\ F # {} \/ indexFails
  /\ refreshStore' = IF F = {} THEN RedisDelAll(refreshStore, pcs[p].members) ELSE refreshStore
  /\ userTokens' = IF indexFails \/ F # {} THEN userTokens
                    ELSE RedisDel(userTokens, pcs[p].userId)
  /\ Return(p, [pcs[p] EXCEPT !.failed = F,
                               !.faults = @ \cup (IF indexFails THEN {"del_index"} ELSE {})],
            "success")
  /\ UNCHANGED <<config, now, users, blacklist, opCount, history>>

\* revokeUserRefreshTokens: of the dels issued together, those of the records
\* in F reject, and so does the index's if indexFails; the others take effect
LogoutDelFault(p, F, indexFails) ==
  /\ pcs[p].pc = "ru_del"
  /\ F \subseteq pcs[p].members
  /\ F # {} \/ indexFails
  /\ refreshStore' = RedisDelAll(refreshStore, pcs[p].members \ F)
  /\ userTokens' = IF indexFails THEN userTokens ELSE RedisDel(userTokens, pcs[p].userId)
  /\ Return(p, [pcs[p] EXCEPT !.failed = F,
                               !.faults = @ \cup (IF indexFails THEN {"del_index"} ELSE {})],
            "success")
  /\ UNCHANGED <<config, now, users, blacklist, opCount, history>>

\* a verifyRefreshToken that lets the error of the rejected get reach its caller
RefreshTokenFaultPropagates(p, t) ==
  /\ CanStart(p)
  /\ opCount' = opCount + 1
  /\ Return(p, [Begin("refresh") EXCEPT !.rt = t, !.late = (t \in rotated),
                                        !.seen = Presented(t), !.faults = {"verify_get"}],
            "ServiceError")
  /\ UNCHANGED <<config, now, users, redis, history>>

\* verifyRefreshToken: get rejects; the catch returns null and refreshToken
\* throws InvalidRefreshToken
RefreshTokenFault(p, t) ==
  /\ CanStart(p)
  /\ opCount' = opCount + 1
  /\ Return(p, [Begin("refresh") EXCEPT !.rt = t, !.late = (t \in rotated),
                                        !.seen = Presented(t), !.faults = {"verify_get"}],
            "InvalidRefreshToken")
  /\ UNCHANGED <<config, now, users, redis, history>>

\* revokeRefreshToken: its get, srem or del rejects; the catch logs and the
\* call returns without the calls that would have followed
RevokeFault(p) ==
  /\ pcs[p].pc \in {"rev_get", "rev_srem", "rev_del"}
  /\ AfterRevoke(p, Fault(pcs[p], pcs[p].pc))
  /\ UNCHANGED <<config, now, users, redis, opCount, history>>

\* an isAccessTokenBlacklisted that takes a rejected exists for a marker
ValidateBlacklistFaultClosed(p) ==
  /\ pcs[p].pc = "val_blacklist"
  /\ Return(p, [Fault(pcs[p], "exists") EXCEPT !.blSeen = (pcs[p].at \in DOMAIN blacklist)],
            "TokenRevoked")
  /\ UNCHANGED <<config, now, users, redis, opCount, history>>

\* isAccessTokenBlacklisted: exists rejects; the catch returns false
ValidateBlacklistFault(p) ==
  /\ pcs[p].pc = "val_blacklist"
  /\ Step(p, [Fault(pcs[p], "exists") EXCEPT !.pc = "val_user",
                                            !.blSeen = (pcs[p].at \in DOMAIN blacklist)])
  /\ UNCHANGED <<config, now, users, redis, opCount, history>>

\* generateRefreshToken: its setex, sadd or expire rejects; nothing catches
\* the error, the calls that would follow are not made and the request fails
IssueFault(p) ==
  /\ pcs[p].pc \in {"iss_setex", "iss_sadd", "iss_expire"}
  /\ Return(p, [Fault(pcs[p], pcs[p].pc) EXCEPT !.at = NoAccess,
                                                !.newRt = InvalidRefreshString],
            "StoreError")
  /\ UNCHANGED <<config, now, users, redis, opCount, history>>

\* the requests of one user with the tokens handed to them; every store call
\* of issuance, token verification, revocation, blacklisting and the
\* blacklist lookup may reject
NextFaults ==
  \/ Tick
  \/ \E p \in Procs : Register(p, "a@x", NoRole)
  \/ \E p \in Procs : CreateFindByEmail(p)
  \/ \E p \in Procs : CreateHash(p)
  \/ \E p \in Procs : RegisterCreate(p)
  \/ \E p \in Procs : Login(p, "a@x", "Secret1!")
  \/ \E p \in Procs : LoginCompare(p)
  \/ \E p \in Procs : \E t2 \in SecondRead(Millis(now)) : IssueSign(p, t2)
  \/ \E p \in Procs : IssueSetex(p)
  \/ \E p \in Procs : IssueSadd(p)
  \/ \E p \in Procs : IssueExpire(p)
  \/ \E p \in Procs, t \in returned : RefreshToken(p, t)
  \/ \E p \in Procs : RefreshFindUser(p)
  \/ \E p \in Procs : RevokeGet(p)
  \/ \E p \in Procs : RevokeSrem(p)
  \/ \E p \in Procs : RevokeDel(p)
  \/ \E p \in Procs, a \in handed : LogoutRequest(p, a)
  \/ \E p \in Procs : Logout(p)
  \/ \E p \in Procs : LogoutSmembers(p)
  \/ \E p \in Procs : LogoutDel(p)
  \/ \E p \in Procs, a \in handed : Authenticate(p, a)
  \/ \E p \in Procs : ValidateBlacklist(p)
  \/ \E p \in Procs : ValidateUser(p)
  \/ \E p \in Procs : Me(p)
  \/ \E p \in Procs : LogoutFault(p)
  \/ \E p \in Procs : LogoutRetry(p)
  \/ \E p \in Procs : LogoutRetryFault(p)
  \/ \E p \in Procs : LogoutSmembersFault(p)
  \/ \E p \in Procs, indexFails \in BOOLEAN :
       \E F \in SUBSET pcs[p].members : LogoutDelFault(p, F, indexFails)
  \/ \E p \in Procs, t \in returned : RefreshTokenFault(p, t)
  \/ \E p \in Procs : RevokeFault(p)
  \/ \E p \in Procs : ValidateBlacklistFault(p)
  \/ \E p \in Procs : IssueFault(p)

SpecFaults == Init /\ [][NextFaults]_vars

\* ------------------------------------------ behaviours, rotation and logout
\* one user registers, then only rotates and logs out: every refresh token
\* but the first is issued by a rotation
NextRotation ==
  \/ Tick
  \/ \E p \in Procs : Register(p, "a@x", NoRole)
  \/ \E p \in Procs : CreateFindByEmail(p)
  \/ \E p \in Procs : CreateHash(p)
  \/ \E p \in Procs : RegisterCreate(p)
  \/ \E p \in Procs : \E t2 \in SecondRead(Millis(now)) : IssueSign(p, t2)
  \/ \E p \in Procs : IssueSetex(p)
  \/ \E p \in Procs : IssueSadd(p)
  \/ \E p \in Procs : IssueExpire(p)
  \/ \E p \in Procs, t \in returned : RefreshToken(p, t)
  \/ \E p \in Procs : RefreshFindUser(p)
  \/ \E p \in Procs : RevokeGet(p)
  \/ \E p \in Procs : RevokeSrem(p)
  \/ \E p \in Procs : RevokeDel(p)
  \/ \E p \in Procs, a \in handed : LogoutRequest(p, a)
  \/ \E p \in Procs : ValidateBlacklist(p)
  \/ \E p \in Procs : ValidateUser(p)
  \/ \E p \in Procs : Logout(p)
  \/ \E p \in Procs : LogoutSmembers(p)
  \/ \E p \in Procs : LogoutDel(p)

SpecRotation == Init /\ [][NextRotation]_vars

\* ------------------------------------------ behaviours, longer lifetimes
\* refresh tokens live two seconds and the clock runs past them
LongAccessExpiresIn == <<"3", "s">>
LongRefreshExpiresIn == <<"2", "s">>

InitLong ==
  /\ accessExpiresIn = LongAccessExpiresIn
  /\ refreshExpiresIn = LongRefreshExpiresIn
  /\ now = 0
  /\ users = {}
  /\ refreshStore = EmptySpace
  /\ userTokens = EmptySpace
  /\ blacklist = EmptySpace
  /\ pcs = [p \in Procs |-> Idle]
  /\ last = Idle
  /\ opCount = 0
  /\ issued = EmptySpace
  /\ returned = {}
  /\ handed = {}
  /\ rotated = {}

SpecLong == InitLong /\ [][NextRotation]_vars

\* ------------------------------------------ behaviours, any configuration
\* the strings jwt.accessExpiresIn and jwt.refreshExpiresIn are tried with
DurationChars == {"0", "1", "2", "s", "m", "h", "d", "x"}
MaxDurationLen == 3
DurationStrings == UNION {[1..n -> DurationChars] : n \in 1..MaxDurationLen}

\* the service is constructed with any of the strings
InitDuration ==
  /\ \/ accessExpiresIn \in DurationStrings /\ refreshExpiresIn = ScaledRefreshExpiresIn
     \/ accessExpiresIn = ScaledAccessExpiresIn /\ refreshExpiresIn \in DurationStrings
  /\ now = 0
  /\ users = {}
  /\ refreshStore = EmptySpace
  /\ userTokens = EmptySpace
  /\ blacklist = EmptySpace
  /\ pcs = [p \in Procs |-> Idle]
  /\ last = Idle
  /\ opCount = 0
  /\ issued = EmptySpace
  /\ returned = {}
  /\ handed = {}
  /\ rotated = {}

\* the registration and the logins of one user, each up to the pair it returns
NextDuration ==
  \/ \E p \in Procs : Register(p, "a@x", NoRole)
  \/ \E p \in Procs : CreateFindByEmail(p)
  \/ \E p \in Procs : CreateHash(p)
  \/ \E p \in Procs : RegisterCreate(p)
  \/ \E p \in Procs : Login(p, "a@x", "Secret1!")
  \/ \E p \in Procs : LoginCompare(p)
  \/ \E p \in Procs : \E t2 \in SecondRead(Millis(now)) : IssueSign(p, t2)
  \/ \E p \in Procs : IssueSetex(p)
  \/ \E p \in Procs : IssueSadd(p)
  \/ \E p \in Procs : IssueExpire(p)
  \/ \E p \in Procs, userId \in UserIds : LogoutCall(p, userId, Garbage)
  \/ \E p \in Procs : Logout(p)
  \/ \E p \in Procs : LogoutRetry(p)
  \/ \E p \in Procs : LogoutSmembers(p)
  \/ \E p \in Procs : LogoutDel(p)

SpecDuration == InitDuration /\ [][NextDuration]_vars

\* ------------------------------------------------- calls run to their end
\* what verifyRefreshToken(t) returns when run alone at time tm on the
\* refresh keyspace R
verifyRefreshToken(R, t, tm) ==
  LET tokenDataStr == RedisGet(R, t) IN
  IF tokenDataStr = Null THEN Null
  ELSE IF isExpired(tokenDataStr, Millis(tm)) THEN Null
  ELSE tokenDataStr

\* a revoke that deletes the record and leaves the owner's index alone
RevokeForgetsIndex(R, U, t) == <<RedisDel(R, t), U>>

\* the keyspaces <<refresh records, user indexes>> revokeRefreshToken(t) leaves
\* when run alone on <<R, U>>
revokeRefreshToken(R, U, t) ==
  LET tokenDataStr == RedisGet(R, t) IN
  IF tokenDataStr # Null
    THEN <<RedisDel(R, t), RedisSrem(U, tokenDataStr.userId, t)>>
    ELSE <<R, U>>

IssuingOps == {"register", "login", "refresh"}
InFlight(p) == pcs[p].pc # "idle"

\* the answers of JwtAuthGuard to a request it refuses
GuardRefusals == {"InvalidSignature", "Expired", "TokenRevoked", "NotFoundException"}

\* the request r is a logout route request on which logout(userId, accessToken)
\* has been called and has returned
LogoutReturned(r) == r.op = "logout" /\ r.result \notin GuardRefusals /\ r.result # ""

\* ------------------------------------------------------------ claims

\* C1: rotation is single-use. Once refreshToken(t) has returned a new pair,
\* the record of t is gone for good, every refreshToken(t) called later fails
\* with InvalidRefreshToken at its lookup and issues nothing, and the refresh
\* token a rotation returns differs from the one presented.
RotationSingleUse ==
  /\ \A t \in rotated : verifyRefreshToken(refreshStore, t, now) = Null
  /\ \A p \in Procs : ~pcs[p].late
  /\ last.late => last.result = "InvalidRefreshToken" /\ last.newRt = InvalidRefreshString
                    /\ last.at = NoAccess
  /\ (last.op = "refresh" /\ last.result = "ok") =>
        last.newRt # last.rt /\ last.newRt \notin rotated

\* a refreshToken call made after its token had been rotated has just failed
RotatedTokenRefused ==
  last.op = "refresh" /\ last.late /\ last.result = "InvalidRefreshToken"

\* C2: when logout(userId, accessToken) has blacklisted, the token passed is in
\* the blacklist, whatever token was passed.
LogoutBlacklistsToken ==
  /\ \A p \in Procs : pcs[p].pc \in {"ru_smembers", "ru_del"} => pcs[p].marked
  /\ LogoutReturned(last) => last.marked

\* C3: when logout(userId, accessToken) returns, no refresh token that
\* generateRefreshToken had returned for userId before the call verifies.
LogoutRevokesAll ==
  LogoutReturned(last) =>
    \A t \in last.pre : verifyRefreshToken(refreshStore, t, now) = Null

\* C4: of the refreshToken calls presenting one token, at most one returns a pair.
AtMostOneRotation ==
  (last.op = "refresh" /\ last.result = "ok") => ~last.dup

\* C5: the pair issued for (userId, role) carries them: the access token's
\* claims are sub = userId and role = role, and whenever the refresh token
\* verifies, its record names the same userId and role.
IssuedPairCarriesIdentity ==
  /\ \A t \in DOMAIN issued :
       LET data == verifyRefreshToken(refreshStore, t, now) IN
       data # Null => data.userId = issued[t].userId /\ data.role = issued[t].role
  /\ (last.op \in IssuingOps /\ last.result = "ok") =>
       /\ jwtDecode(last.at) # Null
       /\ jwtDecode(last.at).sub = issued[last.newRt].userId
       /\ jwtDecode(last.at).role = issued[last.newRt].role
       /\ last.userId = issued[last.newRt].userId
       /\ last.role = issued[last.newRt].role
       /\ last.role \in {AppRoleADMIN, AppRoleUSER}

\* a pair has just been returned for an ADMIN and its refresh token verifies
AdminPairVerifies ==
  /\ last.op \in IssuingOps /\ last.result = "ok" /\ last.role = AppRoleADMIN
  /\ verifyRefreshToken(refreshStore, last.newRt, now) # Null

\* C6: the authentication check consults the blacklist first: a bearer token
\* that is in the blacklist when the check runs makes the check fail with
\* TokenRevoked.
BlacklistedFailsAsRevoked ==
  (last.op = "auth" /\ last.blSeen) => last.result = "TokenRevoked"

\* C7: revokeRefreshToken is idempotent. Run twice it leaves what it leaves run
\* once; on an absent record it changes nothing; on a stored record it deletes
\* the record and takes the token out of its owner's index, and nothing else.
\* Step by step: at the del the token is out of the index, and once a rotation
\* is past its revoke the record is gone.
RevokeIdempotent ==
  /\ \A t \in RefreshTokens \cup {InvalidRefreshString} :
       LET once == revokeRefreshToken(refreshStore, userTokens, t)
           twice == revokeRefreshToken(once[1], once[2], t)
           data == RedisGet(refreshStore, t)
       IN /\ twice = once
          /\ data = Null => once = <<refreshStore, userTokens>>
          /\ data # Null =>
               /\ DOMAIN once[1] = DOMAIN refreshStore \ {t}
               /\ \A k \in DOMAIN once[1] : once[1][k] = refreshStore[k]
               /\ \A u \in DOMAIN userTokens \cup {data.userId} :
                    RedisSmembers(once[2], u) =
                      RedisSmembers(userTokens, u) \ (IF u = data.userId THEN {t} ELSE {})
               /\ DOMAIN once[2] \subseteq DOMAIN userTokens
               /\ \A u \in DOMAIN once[2] : once[2][u].exp = userTokens[u].exp
  /\ \A p \in Procs :
       /\ pcs[p].pc = "rev_del" =>
            pcs[p].rt \notin RedisSmembers(userTokens, pcs[p].owner)
       /\ (pcs[p].op = "refresh"
             /\ pcs[p].pc \in {"iss_sign", "iss_setex", "iss_sadd", "iss_expire"}) =>
            pcs[p].rt \notin DOMAIN refreshStore

\* a rotation is past the revoke of a record it found, while another token of
\* the same owner is still stored and indexed
RevokedOneOfTwo ==
  \E p \in Procs :
    /\ pcs[p].op = "refresh" /\ pcs[p].pc = "iss_setex"
    /\ pcs[p].rt \notin DOMAIN refreshStore
    /\ \E t \in DOMAIN refreshStore :
         refreshStore[t].val.userId = pcs[p].userId
         /\ t \in RedisSmembers(userTokens, pcs[p].userId)

\* C8: a refresh token whose record is absent, or stored but past its embedded
\* expiry, does not verify, and refreshToken fails with InvalidRefreshToken
\* without issuing; on an absent record it does nothing more, on an expired
\* one it only runs the eager delete, after which the record is gone.
InvalidRefreshRefused ==
  /\ \A t \in RefreshTokens \cup {InvalidRefreshString} :
       Presented(t) # "valid" => verifyRefreshToken(refreshStore, t, now) = Null
  /\ \A p \in Procs : pcs[p].op = "refresh" =>
       /\ pcs[p].seen # "absent"
       /\ pcs[p].seen = "expired" =>
            pcs[p].pc \in {"rev_get", "rev_srem", "rev_del"} /\ pcs[p].after = "invalid"
  /\ (last.op = "refresh" /\ last.seen # "valid") =>
       /\ last.result = "InvalidRefreshToken"
       /\ last.newRt = InvalidRefreshString /\ last.at = NoAccess
       /\ last.rt \notin DOMAIN refreshStore

\* refreshToken has just failed on a record that was stored but expired
ExpiredRecordRefused ==
  last.op = "refresh" /\ last.seen = "expired" /\ last.result = "InvalidRefreshToken"

\* C9: a login with an unknown email and a login with a wrong password fail
\* alike with InvalidCredentials: no access token is generated and no step of
\* the call writes to the token store; no such login gets past the password
\* comparison.
FailedLoginFrame ==
  /\ (last'.op = "login" /\ last'.seen # "good") =>
       /\ last'.result = "InvalidCredentials"
       /\ last'.at = NoAccess /\ last'.newRt = InvalidRefreshString
       /\ UNCHANGED <<refreshStore, userTokens, blacklist, issued, returned, handed>>
  /\ \A p \in Procs :
       (pcs'[p].op = "login" /\ pcs'[p].seen # "good" /\ pcs'[p] # pcs[p]) =>
         /\ pcs'[p].pc = "login_compare" /\ pcs'[p].at = NoAccess
         /\ UNCHANGED <<refreshStore, userTokens, blacklist, issued, returned, handed>>

FailedLoginEffectFree ==
  /\ [][FailedLoginFrame]_vars
  /\ [](\A p \in Procs : (pcs[p].op = "login" /\ pcs[p].pc # "login_compare") =>
                            pcs[p].seen = "good")

\* a login with a known email and a wrong password has just failed
WrongPasswordRefused ==
  last.op = "login" /\ last.seen = "wrong" /\ last.result = "InvalidCredentials"

\* C10: a registration with an email that belongs to a user fails with
\* EmailTaken at once: no user is created, no token pair produced or stored,
\* and no two users ever share an email.
DuplicateRegistrationFrame ==
  (last'.op = "register" /\ last'.seen = "taken") =>
    /\ last'.result = "EmailTaken"
    /\ last'.at = NoAccess /\ last'.newRt = InvalidRefreshString
    /\ UNCHANGED <<users, refreshStore, userTokens, blacklist, issued, returned, handed>>

DuplicateRegistrationRefused ==
  /\ [][DuplicateRegistrationFrame]_vars
  /\ [](\A p \in Procs : pcs[p].op = "register" => pcs[p].seen = "free")
  /\ [](\A u, v \in users : u.email = v.email => u = v)

\* a registration with a taken email has just failed
TakenEmailRefused ==
  last.op = "register" /\ last.seen = "taken" /\ last.result = "EmailTaken"

\* a step in which blacklistAccessToken issues a setex for request p
IssuesSetex(p) ==
  /\ pcs'[p].pc \in {"lo_setex", "lo_retry"}
  /\ pcs'[p].pc # pcs[p].pc

\* C11: a blacklist marker is never asked to outlive the access token it
\* marks: for a token with a readable expiry claim exp, every setex that
\* blacklistAccessToken issues at time t asks for a time-to-live of at most
\* exp - t, within the one second of the clock's resolution. It holds of the
\* first setex; when that one rejects, the inner catch issues a setex with
\* the default time-to-live whatever the token's exp.
MarkerWithinValidityStep ==
  \A p \in Procs :
    (IssuesSetex(p) /\ jwtDecode(pcs'[p].at) # Null /\ jwtDecode(pcs'[p].at).exp # 0) =>
      pcs'[p].ttl <= jwtDecode(pcs'[p].at).exp - now + 1

MarkerWithinValidity == [][MarkerWithinValidityStep]_vars

\* the duration grammar <integer><unit>, the unit one of s, m, h, d or absent
DurationGrammar(value) ==
  /\ value # <<>>
  /\ \/ \A k \in 1..Len(value) : value[k] \in Digits
     \/ /\ Len(value) > 1
        /\ \A k \in 1..(Len(value) - 1) : value[k] \in Digits
        /\ value[Len(value)] \in UnitChars

\* the seconds a string of the grammar denotes
GrammarSeconds(value) ==
  LET unit == value[Len(value)]
      n == IF unit \in UnitChars THEN DecimalValue(SubSeq(value, 1, Len(value) - 1))
           ELSE DecimalValue(value)
  IN CASE unit = "m" -> 60 * n
       [] unit = "h" -> 3600 * n
       [] unit = "d" -> 86400 * n
       [] OTHER -> n

\* C12: the expiresIn returned with an issued pair is the lifetime exp - iat
\* of the access token of that pair, for every duration jwt.accessExpiresIn
\* is configured with, unit-suffixed or bare numeric.
ExpiresInIsLifetime ==
  (last.op \in IssuingOps /\ last.result = "ok" /\ DurationGrammar(accessExpiresIn)) =>
    last.expiresIn = last.at.exp - last.at.iat

\* C13: parseExpiresToSeconds reads a string of the grammar <integer><unit> as
\* the seconds it denotes (a bare integer as seconds), and reads no other
\* string as a duration; stated of the lifetime TokenService is constructed with.
ParseFollowsGrammar ==
  accessTokenExpirationSeconds =
    IF DurationGrammar(accessExpiresIn) THEN GrammarSeconds(accessExpiresIn) ELSE NaN

\* a step in which a setex issued by blacklistAccessToken for request p ends
BlacklistStep(p) ==
  pcs[p].pc \in {"lo_setex", "lo_retry"} /\ pcs'[p].pc # pcs[p].pc

\* a step in which blacklistAccessToken completes for the logout of request p
BlacklistDone(p) ==
  /\ pcs'[p].op = "logout" /\ pcs'[p].pc = "ru_smembers"
  /\ pcs[p].pc # "ru_smembers"

\* C16: blacklistAccessToken stores a marker for every token: a token whose
\* expiry claim cannot be read, or is already past, gets a marker whose
\* time-to-live is the configured access-token lifetime.
\* (the step in which blacklistAccessToken completes is the one that takes
\* the logout into revokeUserRefreshTokens; it comes from a setex unless the
\* token's expiry was read and found past, and then no setex was issued).
DefaultTtlMarkerStep ==
  \A p \in Procs :
    (BlacklistDone(p)
       /\ (jwtDecode(pcs'[p].at) = Null \/ pcs[p].pc \notin {"lo_setex", "lo_retry"})) =>
      /\ pcs'[p].at \in DOMAIN blacklist'
      /\ blacklist'[pcs'[p].at].exp = now + accessTokenExpirationSeconds

DefaultTtlMarker == [][DefaultTtlMarkerStep]_vars

\* C15: refreshToken with a valid refresh token whose owner no longer exists
\* fails with the unauthorized UserNotFound error; the presented token is not
\* revoked and no pair is issued.
OrphanRefreshStep ==
  \A p \in Procs :
    (pcs[p].pc = "ref_user" /\ pcs'[p] # pcs[p] /\ findOne(users, pcs[p].data.userId) = Null) =>
      /\ last'.result = "Unauthorized:UserNotFound"
      /\ last'.at = NoAccess /\ last'.newRt = InvalidRefreshString
      /\ UNCHANGED <<refreshStore, userTokens, issued>>

OrphanRefreshUnauthorized == [][OrphanRefreshStep]_vars

\* C14: logout always completes with success: blacklistAccessToken never
\* throws, and when the store rejects its writes revokeUserRefreshTokens is
\* still run afterwards (a logout past blacklisting is inside it, and when its
\* own calls succeed the user's index is gone on return) and logout succeeds.
LogoutAlwaysCompletes ==
  /\ LogoutReturned(last) => last.result = "success"
  /\ \A p \in Procs :
       /\ (pcs[p].op = "logout" /\ "setex" \in pcs[p].faults) =>
            pcs[p].pc \in {"lo_retry", "ru_smembers", "ru_del"}
       /\ (pcs[p].op = "logout" /\ "setex_retry" \in pcs[p].faults) =>
            pcs[p].pc \in {"ru_smembers", "ru_del"}
  /\ (last.op = "logout" /\ "setex" \in last.faults
        /\ last.faults \cap {"smembers", "del_index"} = {} /\ last.failed = {}) =>
       RedisSmembers(userTokens, last.userId) = {}

\* a logout whose blacklist writes were both rejected has returned success
\* after revoking the refresh tokens of the user
LogoutDespiteBlacklistFault ==
  /\ last.op = "logout" /\ last.result = "success"
  /\ "setex_retry" \in last.faults /\ ~last.marked
  /\ last.pre # {}
  /\ \A t \in last.pre : RedisGet(refreshStore, t) = Null

\* the store calls of the eager delete verifyRefreshToken makes for an
\* expired record
EagerDeleteCalls == {"rev_get", "rev_srem", "rev_del"}

\* C17: verifyRefreshToken fails closed: when its get rejects, or a call of
\* the eager delete of an expired record rejects, it returns null, so that
\* refreshToken fails with InvalidRefreshToken and issues nothing; no refresh
\* goes on past a rejected lookup, nor past an expired record.
VerifyFailsClosed ==
  /\ (last.op = "refresh" /\ ("verify_get" \in last.faults \/ last.seen = "expired")) =>
       /\ last.result = "InvalidRefreshToken"
       /\ last.at = NoAccess /\ last.newRt = InvalidRefreshString
  /\ \A p \in Procs : pcs[p].op = "refresh" =>
       /\ "verify_get" \notin pcs[p].faults
       /\ pcs[p].seen = "expired" =>
            /\ pcs[p].pc \in EagerDeleteCalls /\ pcs[p].after = "invalid"
            /\ pcs[p].at = NoAccess /\ pcs[p].newRt = InvalidRefreshString

\* a refresh presenting a stored, unexpired token was refused because the
\* lookup was rejected by the store
ValidTokenRefusedOnStoreError ==
  /\ last.op = "refresh" /\ last.seen = "valid" /\ "verify_get" \in last.faults
  /\ last.result = "InvalidRefreshToken"
  /\ last.rt \in DOMAIN refreshStore

\* C18: isAccessTokenBlacklisted fails open: validate refuses a token as
\* revoked only when the store has reported its marker; when exists rejects it
\* answers false without throwing, so the request passes the blacklist check
\* even if the token is marked; when exists answers, a marked token never
\* passes.
BlacklistCheckFailsOpen ==
  /\ (last.op = "auth" /\ last.result = "TokenRevoked") =>
       last.blSeen /\ "exists" \notin last.faults
  /\ (last.op = "auth" /\ "exists" \in last.faults) =>
       last.result \in {"ok", "NotFoundException"}
  /\ (last.op = "auth" /\ last.blSeen /\ last.faults = {}) =>
       last.result \notin {"ok", "NotFoundException"}
  /\ \A p \in Procs : pcs[p].pc \in {"val_user", "me_find"} =>
       (pcs[p].blSeen => "exists" \in pcs[p].faults)

\* a blacklisted, otherwise valid access token has been authenticated while
\* the store rejected the blacklist lookup
BlacklistedPassesDuringOutage ==
  /\ last.op = "auth" /\ last.result = "ok"
  /\ "exists" \in last.faults /\ last.blSeen
  /\ last.at \in DOMAIN blacklist /\ jwtVerify(last.at, now) = "valid"

\* C19: revokeUserRefreshTokens tolerates the failure of single deletes: in
\* the step that issues the deletes, the record of every member of the index
\* whose delete did not reject is gone afterwards whatever the other deletes
\* did, records outside the index are untouched, the index is deleted with
\* them unless its own delete rejects, and the caller gets success.
RevokeAllToleratesStep ==
  \A p \in Procs :
    (pcs[p].pc = "ru_del" /\ pcs'[p] # pcs[p]) =>
      LET members == pcs[p].members
          failed == last'.failed
      IN /\ last'.op = "logout" /\ last'.result = "success"
         /\ failed \subseteq members
         /\ \A t \in members \ failed : t \notin DOMAIN refreshStore'
         /\ \A t \in DOMAIN refreshStore \ (members \ failed) :
              t \in DOMAIN refreshStore' /\ refreshStore'[t] = refreshStore[t]
         /\ IF "del_index" \in last'.faults
              THEN userTokens' = userTokens
              ELSE pcs[p].userId \notin DOMAIN userTokens'

RevokeAllTolerates == [][RevokeAllToleratesStep]_vars

\* a logout has returned after the delete of one record was rejected: that
\* record is still stored, another record of the user and the index are gone
OneDeleteFailedOthersDone ==
  /\ last.op = "logout" /\ last.result = "success"
  /\ \E t \in last.failed : t \in DOMAIN refreshStore
  /\ \E t \in last.pre \ last.failed : t \notin DOMAIN refreshStore /\ t \notin rotated
  /\ last.userId \notin DOMAIN userTokens

\* C20: logout is blacklist-first: the blacklist write for the presented token
\* is complete before revokeUserRefreshTokens issues a delete, so a logout
\* whose revocation fails, in part or wholly, has still blacklisted the token
\* (the store having accepted the blacklist write).
BlacklistFirst ==
  (last.op = "logout" /\ "setex" \notin last.faults
    /\ (last.failed # {} \/ last.faults \cap {"smembers", "del_index"} # {})) =>
      last.marked

\* C21: a refresh token never comes back: once a token that was handed out
\* no longer verifies (its record rotated, revoked, logged out or lapsed), no
\* step, a new issuance included, makes it verify again.
NoResurrectionStep ==
  \A t \in returned :
    verifyRefreshToken(refreshStore, t, now) = Null =>
      verifyRefreshToken(refreshStore', t, now') = Null

NoResurrection == [][NoResurrectionStep]_vars

\* a rotated token is gone from the store while a token drawn after it is live
RetiredWhileSuccessorLive ==
  \E t \in rotated, u \in returned :
    /\ t < u
    /\ verifyRefreshToken(refreshStore, t, now) = Null
    /\ verifyRefreshToken(refreshStore, u, now) # Null

\* C22 as claimed: a successful rotation issues the new pair for the user and
\* the role recorded with the presented refresh token, also when the role of
\* the user was changed after that token was issued.
RotationKeepsRecordedRole ==
  (last.op = "refresh" /\ last.result = "ok") =>
    /\ last.at.sub = issued[last.rt].userId
    /\ last.at.role = issued[last.rt].role
    /\ issued[last.newRt] = issued[last.rt]

\* C22: a successful rotation issues the new pair for the user recorded with
\* the presented refresh token and for the role the user's row holds when the
\* rotation looks the user up; the role recorded with the token is not used.
RotationCarriesCurrentRoleStep ==
  /\ \A p \in Procs :
       (pcs[p].pc = "ref_user" /\ pcs'[p].pc = "rev_get") =>
         /\ pcs'[p].userId = pcs[p].data.userId
         /\ pcs'[p].role = findOne(users, pcs[p].data.userId).role
  /\ (last'.op = "refresh" /\ last'.result = "ok") =>
       /\ last'.at.sub = issued[last'.rt].userId /\ last'.at.sub = last'.userId
       /\ last'.at.role = last'.role
       /\ issued[last'.newRt] = [userId |-> last'.userId, role |-> last'.role]

RotationCarriesCurrentRole == [][RotationCarriesCurrentRoleStep]_vars

\* a rotation has returned a pair whose role is not the one recorded with the
\* presented token, the role of the user having been changed in between
RotatedAfterRoleChange ==
  /\ last.op = "refresh" /\ last.result = "ok"
  /\ last.at.role # issued[last.rt].role
  /\ last.at.sub = issued[last.rt].userId

\* C23: rotation and single-token revoke touch only the presented token: in
\* every step of a refreshToken call, each other stored record stays as it is
\* and each other indexed token stays in its owner's index; and
\* revokeRefreshToken(t) run alone leaves every other record and index
\* membership alone.
RotationFrameStep ==
  /\ \A p \in Procs :
       (pcs[p].op = "refresh" /\ pcs'[p] # pcs[p]) =>
         /\ \A u \in DOMAIN refreshStore \ {pcs[p].rt} :
              u \in DOMAIN refreshStore' /\ refreshStore'[u] = refreshStore[u]
         /\ \A k \in DOMAIN userTokens :
              \A u \in RedisSmembers(userTokens, k) \ {pcs[p].rt} :
                u \in RedisSmembers(userTokens', k)
  /\ \A t \in returned :
       LET after == revokeRefreshToken(refreshStore, userTokens, t) IN
       /\ \A u \in DOMAIN refreshStore \ {t} :
            u \in DOMAIN after[1] /\ after[1][u] = refreshStore[u]
       /\ \A k \in DOMAIN userTokens :
            RedisSmembers(userTokens, k) \ {t} \subseteq RedisSmembers(after[2], k)

RotationFrame == [][RotationFrameStep]_vars

\* a rotation has returned while another refresh token of the same user is
\* still stored, verifies and is in the user's index
SiblingSurvivesRotation ==
  /\ last.op = "refresh" /\ last.result = "ok"
  /\ \E u \in returned \ {last.rt, last.newRt} :
       /\ issued[u].userId = last.userId
       /\ verifyRefreshToken(refreshStore, u, now) # Null
       /\ u \in RedisSmembers(userTokens, last.userId)

\* C24: a refresh record is written with a time-to-live equal to the seconds
\* from its createdAt to its embedded expiry, createdAt plus the configured
\* refresh lifetime, so that the store drops it by that expiry and
\* verifyRefreshToken refuses it afterwards; and that time-to-live is a
\* positive number of seconds whatever jwt.refreshExpiresIn the service
\* accepted at construction.
RefreshTtlIsPositiveLifetime ==
  /\ \A p \in Procs : pcs[p].pc = "iss_setex" =>
       /\ pcs[p].data.expiresAt = pcs[p].data.createdAt + Millis(refreshTokenExpirationSeconds)
       /\ ttlSeconds(pcs[p].data) > 0
  /\ \A t \in DOMAIN refreshStore :
       /\ refreshStore[t].exp <= now + refreshTokenExpirationSeconds
       /\ Millis(now) > refreshStore[t].val.expiresAt =>
            verifyRefreshToken(refreshStore, t, now) = Null

\* no generateRefreshToken and no revokeRefreshToken is under way
NoIssueOrRevokeInFlight ==
  \A p \in Procs :
    pcs[p].pc \notin {"iss_setex", "iss_sadd", "iss_expire", "rev_get", "rev_srem", "rev_del"}

\* C25: generateRefreshToken adds the token to the index of its user and
\* refreshes the index's time-to-live to the record's: whenever no issue and no
\* revoke is under way, every refresh record that verifies is a member of its
\* owner's index, and the index does not lapse before that record.
LiveRecordsIndexed ==
  NoIssueOrRevokeInFlight =>
    \A t \in DOMAIN refreshStore :
      verifyRefreshToken(refreshStore, t, now) # Null =>
        LET owner == refreshStore[t].val.userId IN
        /\ t \in RedisSmembers(userTokens, owner)
        /\ userTokens[owner].exp >= refreshStore[t].exp

\* C27: a rotation under way does not defeat a logout: when logout(u, a) has
\* returned and the refreshToken calls it ran alongside are complete too, no
\* refresh token of u verifies, the one a rotation issued meanwhile included.
LogoutBeatsRotation ==
  (LogoutReturned(last) /\ \A p \in Procs : pcs[p].pc = "idle") =>
    \A t \in DOMAIN issued :
      issued[t].userId = last.userId => verifyRefreshToken(refreshStore, t, now) = Null

\* C28: a rotation that returns a pair has retired the presented token, store
\* errors or not: when refreshToken(t) returns successfully, t's record is
\* gone and verifyRefreshToken(t) answers null.
RotationRetiresOldToken ==
  (last.op = "refresh" /\ last.result = "ok") =>
    /\ last.rt \notin DOMAIN refreshStore
    /\ verifyRefreshToken(refreshStore, last.rt, now) = Null

\* C29 as stated: a marker stored for an access token with expiry exp stays
\* until exp: it is stored to last at least the token's remaining validity, no
\* step before exp removes it or shortens it, and isAccessTokenBlacklisted
\* keeps answering true (the store answering).
MarkerStaysStep ==
  \A a \in DOMAIN blacklist :
    (jwtDecode(a) # Null /\ jwtDecode(a).exp # 0) =>
      /\ blacklist[a].exp >= jwtDecode(a).exp
      /\ isAccessTokenBlacklisted(blacklist, a)
      /\ now' < jwtDecode(a).exp =>
           /\ a \in DOMAIN blacklist'
           /\ blacklist'[a].exp >= blacklist[a].exp
           /\ isAccessTokenBlacklisted(blacklist', a)

MarkerStays == [][MarkerStaysStep]_vars

\* C29, amended: a marker stored for an access token with expiry exp stays
\* until exp: it lasts at least to exp, no step before exp removes it or
\* brings its expiry below exp, isAccessTokenBlacklisted keeps answering true
\* (the store answering), and the only step that changes it is a setex of
\* blacklistAccessToken for the same token, which sets the time-to-live anew.
MarkerCoversValidityStep ==
  \A a \in DOMAIN blacklist :
    (jwtDecode(a) # Null /\ jwtDecode(a).exp # 0) =>
      /\ blacklist[a].exp >= jwtDecode(a).exp
      /\ isAccessTokenBlacklisted(blacklist, a)
      /\ now' < jwtDecode(a).exp =>
           /\ a \in DOMAIN blacklist'
           /\ blacklist'[a].exp >= jwtDecode(a).exp
           /\ isAccessTokenBlacklisted(blacklist', a)
      /\ (a \in DOMAIN blacklist' /\ blacklist'[a] # blacklist[a]) =>
           \E p \in Procs : BlacklistStep(p) /\ pcs[p].at = a

MarkerCoversValidity == [][MarkerCoversValidityStep]_vars

\* the marker of an unexpired access token is in place after a later
\* issuance has returned its pair
MarkerOutlastsLaterIssue ==
  /\ last.op \in IssuingOps /\ last.result = "ok"
  /\ \E a \in DOMAIN blacklist :
       /\ a.kind = "jwt" /\ now < a.exp /\ a.iat < last.at.iat
       /\ isAccessTokenBlacklisted(blacklist, a)

\* the outcome of the authentication check of bearer token a made at once on
\* blacklist B and users table U at time t
AuthCheck(B, U, a, t) ==
  IF jwtVerify(a, t) # "valid" THEN jwtVerify(a, t)
  ELSE IF isAccessTokenBlacklisted(B, a) THEN "TokenRevoked"
  ELSE IF findOne(U, a.sub) = Null THEN "NotFoundException"
  ELSE "ok"

\* C30: logout blacklists the presented access token and no other: the step
\* in which logout(userId, a) runs blacklistAccessToken changes the blacklist
\* at a only, its later steps leave the blacklist alone, and every other
\* access token handed out that the authentication check accepted before the
\* step is accepted after it.
LogoutMarksOnlyPresentedStep ==
  \A p \in Procs :
    /\ BlacklistStep(p) =>
         /\ \A b \in (DOMAIN blacklist \cup DOMAIN blacklist') \ {pcs[p].at} :
              /\ b \in DOMAIN blacklist /\ b \in DOMAIN blacklist'
              /\ blacklist'[b] = blacklist[b]
         /\ \A b \in handed \ {pcs[p].at} :
              AuthCheck(blacklist, users, b, now) = "ok" =>
                AuthCheck(blacklist', users', b, now') = "ok"
    /\ (pcs[p].op = "logout" /\ pcs'[p] # pcs[p] /\ ~BlacklistStep(p)) =>
         blacklist' = blacklist

LogoutMarksOnlyPresented == [][LogoutMarksOnlyPresentedStep]_vars

\* a logout has returned with its access token marked while another
\* unexpired access token of the same user passes the authentication check
OtherTokenStillAccepted ==
  /\ last.op = "logout" /\ last.result = "success"
  /\ last.at \in DOMAIN blacklist
  /\ \E b \in handed :
       /\ b # last.at /\ b.sub = last.userId
       /\ AuthCheck(blacklist, users, b, now) = "ok"

====
